---- MODULE Spec2Model ----
(***************************************************************************)
(* Penn State daily crime log: the scraper's record parser, the SQLite     *)
(* ingestion (build_database) and the campus-code cleanup (run_cleanup).   *)
(*                                                                         *)
(* Free text (incident numbers, dates, offenses) is a sequence of          *)
(* one-character strings, so that the regular expression, strip and split  *)
(* of the source are computed character by character.  Campus codes and    *)
(* campus names of the vocabulary tables are TLA+ strings; Str turns a     *)
(* character sequence into the string a dictionary is keyed by.            *)
(***************************************************************************)
EXTENDS Integers, Sequences, FiniteSets, TLC

\* ------------------------------------------------------------------ text

Digits == {"0", "1", "2", "3", "4", "5", "6", "7", "8", "9"}

Upper == {"A", "B", "C", "D", "E", "F", "G", "H", "I", "J", "K", "L", "M",
          "N", "O", "P", "Q", "R", "S", "T", "U", "V", "W", "X", "Y", "Z"}

Whitespace == {" ", "\n", "\t"}

RECURSIVE Str(_)
Str(s) == IF s = <<>> THEN "" ELSE Head(s) \o Str(Tail(s))

RECURSIVE LStrip(_)
LStrip(s) == IF s # <<>> /\ Head(s) \in Whitespace THEN LStrip(Tail(s)) ELSE s

RECURSIVE RStrip(_)
RStrip(s) ==
    IF s # <<>> /\ s[Len(s)] \in Whitespace
    THEN RStrip(SubSeq(s, 1, Len(s) - 1))
    ELSE s

\* str.strip() and get_text(strip=True) on one text node
Strip(s) == RStrip(LStrip(s))

\* dict helpers: d[k] = v, and d.get(k, default)
Put(d, k, v) == [x \in DOMAIN d \cup {k} |-> IF x = k THEN v ELSE d[x]]

Get(d, k, default) == IF k \in DOMAIN d THEN d[k] ELSE default

\* ------------------------------------------------------------ vocabulary

\* CAMPUSES.values(): the labels scrape_all_campuses passes to the parser
CAMPUSES ==
    {"University Park", "Abington", "Altoona", "Beaver", "Erie (Behrend)",
     "Berks", "Brandywine", "Dickinson Law", "DuBois", "Fayette",
     "Greater Allegheny", "Great Valley", "Harrisburg", "Hazleton",
     "Hershey", "Lehigh Valley", "Mont Alto", "New Kensington",
     "Schuylkill", "Shenango", "Wilkes-Barre", "Worthington Scranton",
     "York"}

\* CAMPUS_CODES.items(), in the insertion order of the dict literal
CAMPUS_CODES_ITEMS ==
    << <<"UP", "University Park">>, <<"AB", "Abington">>,
       <<"AL", "Altoona">>, <<"BK", "Beaver">>,
       <<"BE", "Erie (Behrend)">>, <<"BR", "Berks">>,
       <<"BW", "Brandywine">>, <<"DL", "Dickinson Law">>,
       <<"DB", "DuBois">>, <<"FA", "Fayette">>,
       <<"GA", "Greater Allegheny">>, <<"GV", "Great Valley">>,
       <<"HB", "Harrisburg">>, <<"HZ", "Hazleton">>,
       <<"HS", "Hershey">>, <<"LV", "Lehigh Valley">>,
       <<"MA", "Mont Alto">>, <<"NK", "New Kensington">>,
       <<"SK", "Schuylkill">>, <<"SH", "Shenango">>,
       <<"WB", "Wilkes-Barre">>, <<"WS", "Worthington Scranton">>,
       <<"YK", "York">>,
       <<"HN", "Hershey">>, <<"ER", "Erie (Behrend)">>,
       <<"BKT", "Beaver">>, <<"SL", "Schuylkill">>,
       <<"DS", "DuBois">>, <<"FE", "Fayette">>,
       <<"ABT", "Abington">>, <<"PSHI", "University Park">> >>

\* a dict built from (key, value) items: a later item overwrites an earlier
RECURSIVE DictOf(_)
DictOf(items) ==
    IF items = <<>>
    THEN <<>>
    ELSE LET n == Len(items)
             rest == DictOf(SubSeq(items, 1, n - 1))
         IN Put(rest, items[n][1], items[n][2])

CAMPUS_CODES == DictOf(CAMPUS_CODES_ITEMS)

\* {v: k for k, v in CAMPUS_CODES.items()}
CAMPUS_NAME_TO_CODE ==
    DictOf([i \in DOMAIN CAMPUS_CODES_ITEMS |->
              <<CAMPUS_CODES_ITEMS[i][2], CAMPUS_CODES_ITEMS[i][1]>>])

\* CAMPUS_CODE_FIXES as it would be without the entry of HN
CAMPUS_CODE_FIXES_NoHN ==
    DictOf(<< <<"ER", "BE">>, <<"BKT", "BK">>, <<"SL", "SK">>,
              <<"DS", "DB">>, <<"FE", "FA">>, <<"PSHI", "UP">>,
              <<"ABT", "AB">> >>)

\* CAMPUS_CODE_FIXES as it would be with HN corrected to ER, a code that
\* is itself corrected
CAMPUS_CODE_FIXES_chained ==
    DictOf(<< <<"HN", "ER">>, <<"ER", "BE">>, <<"BKT", "BK">>,
              <<"SL", "SK">>, <<"DS", "DB">>, <<"FE", "FA">>,
              <<"PSHI", "UP">>, <<"ABT", "AB">> >>)

\* run_cleanup.py
CAMPUS_CODE_FIXES ==
    DictOf(<< <<"HN", "HS">>, <<"ER", "BE">>, <<"BKT", "BK">>,
              <<"SL", "SK">>, <<"DS", "DB">>, <<"FE", "FA">>,
              <<"PSHI", "UP">>, <<"ABT", "AB">> >>)

CORRECT_CAMPUS_NAMES ==
    DictOf(<< <<"UP", "University Park">>, <<"AB", "Abington">>,
              <<"AL", "Altoona">>, <<"BK", "Beaver">>,
              <<"BE", "Erie (Behrend)">>, <<"BR", "Berks">>,
              <<"BW", "Brandywine">>, <<"DL", "Dickinson Law">>,
              <<"DB", "DuBois">>, <<"FA", "Fayette">>,
              <<"GA", "Greater Allegheny">>, <<"GV", "Great Valley">>,
              <<"HB", "Harrisburg">>, <<"HZ", "Hazleton">>,
              <<"HS", "Hershey">>, <<"LV", "Lehigh Valley">>,
              <<"MA", "Mont Alto">>, <<"NK", "New Kensington">>,
              <<"SK", "Schuylkill">>, <<"SH", "Shenango">>,
              <<"WB", "Wilkes-Barre">>, <<"WS", "Worthington Scranton">>,
              <<"YK", "York">> >>)

\* --------------------------------------------------------------- parsing

\* the length of the run of uppercase letters of s that starts at position i
RECURSIVE UpperRun(_, _)
UpperRun(s, i) ==
    IF i <= Len(s) /\ s[i] \in Upper THEN 1 + UpperRun(s, i + 1) ELSE 0

\* re.match(r'\d{2}([A-Z]{2,3})', s): <<group 1>> on a match, <<>> on none
code_match(s) ==
    IF Len(s) >= 2 /\ s[1] \in Digits /\ s[2] \in Digits
       /\ UpperRun(s, 3) >= 2
    THEN LET n == IF UpperRun(s, 3) >= 3 THEN 3 ELSE UpperRun(s, 3)
         IN << SubSeq(s, 3, 2 + n) >>
    ELSE <<>>

\* block.select_one(selector) and, when found, incident[key] = its text
Extract(incident, block, elem, key) ==
    IF elem \in DOMAIN block
    THEN Put(incident, key, Strip(block[elem]))
    ELSE incident

\* the body of the loop of parse_incidents for one .views-row block:
\* <<incident>> when the record is appended, <<>> when it is dropped
parse_block(block, idx, campus_label, debug) ==
    LET i0 == [campus |-> campus_label,
               incident_number |-> <<>>,
               campus_code |-> Get(CAMPUS_NAME_TO_CODE, campus_label, "")]
        i1 == Extract(i0, block, "title", "incident_number")
        m  == code_match(i1.incident_number)
        i2 == IF "title" \in DOMAIN block /\ m # <<>>
              THEN Put(i1, "campus_code", Str(m[1]))
              ELSE i1
        i3 == Extract(i2, block, "reported", "reported_datetime")
        i4 == Extract(i3, block, "occurred", "occurred_datetime")
        i5 == Extract(i4, block, "nature", "nature_of_incident")
        i6 == Extract(i5, block, "offenses", "offenses")
        i7 == Extract(i6, block, "location", "location")
        \* incident['reported_datetime'] in the debug output of block 0
        KeyError == debug /\ idx = 0
                    /\ ~ {"reported_datetime", "nature_of_incident"}
                           \subseteq DOMAIN i7
        any == \/ i7.incident_number # <<>>
               \/ Get(i7, "reported_datetime", <<>>) # <<>>
               \/ Get(i7, "nature_of_incident", <<>>) # <<>>
    IN IF ~ KeyError /\ any THEN <<i7>> ELSE <<>>

RECURSIVE parse_from(_, _, _, _)
parse_from(blocks, idx, campus_label, debug) ==
    IF idx >= Len(blocks)
    THEN <<>>
    ELSE parse_block(blocks[idx + 1], idx, campus_label, debug)
         \o parse_from(blocks, idx + 1, campus_label, debug)

\* parse_incidents(html, campus_label, debug), html given as its blocks
parse_incidents(blocks, campus_label, debug) ==
    parse_from(blocks, 0, campus_label, debug)

\* -------------------------------------------------------------- database

\* SQL NULL: incident_number is stored as NULL when the text is empty
NULL == <<"NULL">>

\* `incident_number or None`
OrNone(text) == IF text = <<>> THEN NULL ELSE text

RECURSIVE MaxOf(_)
MaxOf(S) ==
    IF S = {} THEN 0
    ELSE LET e == CHOOSE e \in S : TRUE
             m == MaxOf(S \ {e})
         IN IF e > m THEN e ELSE m

\* INTEGER PRIMARY KEY AUTOINCREMENT of a table no row is deleted from
NextId(ids) == MaxOf(ids) + 1

\* CAMPUS_SEED = [(code, name) for code, name in CAMPUS_CODES.items()]
CAMPUS_SEED == CAMPUS_CODES_ITEMS

\* seed_campuses as it would be with a plain INSERT on a table without the
\* UNIQUE constraint: every seed is a new row
RECURSIVE seed_campuses_plain(_, _)
seed_campuses_plain(rows, seed) ==
    IF seed = <<>>
    THEN rows
    ELSE seed_campuses_plain(
            Append(rows, [campus_id |->
                             NextId({rows[i].campus_id : i \in DOMAIN rows}),
                          campus_code |-> Head(seed)[1],
                          campus_name |-> Head(seed)[2]]),
            Tail(seed))

\* executemany("INSERT OR IGNORE INTO campuses (campus_code, campus_name)"):
\* campus_code is UNIQUE, campus_name is not
RECURSIVE seed_campuses(_, _)
seed_campuses(rows, seed) ==
    IF seed = <<>>
    THEN rows
    ELSE LET code == Head(seed)[1]
             name == Head(seed)[2]
             present == \E i \in DOMAIN rows : rows[i].campus_code = code
             ids == {rows[i].campus_id : i \in DOMAIN rows}
             next == IF present
                     THEN rows
                     ELSE Append(rows, [campus_id |-> NextId(ids),
                                        campus_code |-> code,
                                        campus_name |-> name])
         IN seed_campuses(next, Tail(seed))

\* dict(SELECT campus_code, campus_id FROM campuses)
campus_map_of(rows) ==
    [c \in {rows[i].campus_code : i \in DOMAIN rows} |->
        (CHOOSE r \in {rows[i] : i \in DOMAIN rows} : r.campus_code = c).campus_id]

\* resolve_campus as it would be with a default campus in place of the skip
resolve_campus_default(rec, campus_map) ==
    LET direct == Get(campus_map, Get(rec, "campus_code", ""), 0)
        by_name == Get(CAMPUS_NAME_TO_CODE, Get(rec, "campus", ""), "")
    IN IF direct # 0 THEN direct
       ELSE IF by_name # "" /\ Get(campus_map, by_name, 0) # 0
            THEN campus_map[by_name]
       ELSE 1

\* lines 426-439: the campus_id of a record, 0 when the record is skipped
resolve_campus(rec, campus_map) ==
    LET code == Get(rec, "campus_code", "")
        direct == Get(campus_map, code, 0)
        campus_name == Get(rec, "campus", "")
        by_name == Get(CAMPUS_NAME_TO_CODE, campus_name, "")
    IN IF direct # 0 THEN direct
       ELSE IF by_name # "" THEN Get(campus_map, by_name, 0)
       ELSE 0

\* the position of the first occurrence of sep in s at or after i, 0 if none
Find(s, sep, i) ==
    LET at == {j \in i..(Len(s) - Len(sep) + 1) :
                  SubSeq(s, j, j + Len(sep) - 1) = sep}
    IN IF at = {} THEN 0 ELSE CHOOSE j \in at : \A k \in at : j <= k

\* str.split(sep)
RECURSIVE Split(_, _)
Split(s, sep) ==
    LET at == Find(s, sep, 1)
    IN IF at = 0 THEN <<s>>
       ELSE <<SubSeq(s, 1, at - 1)>>
            \o Split(SubSeq(s, at + Len(sep), Len(s)), sep)

\* lines 442-445: <<occ_start, occ_end>>
split_occurred(occ) ==
    LET parts == IF occ # <<>> THEN Split(occ, <<" ", "t", "o", " ">>) ELSE <<>>
        occ_parts == [i \in DOMAIN parts |-> Strip(parts[i])]
    IN << IF occ_parts # <<>> THEN occ_parts[1] ELSE <<>>,
          IF Len(occ_parts) > 1 THEN occ_parts[2] ELSE <<>> >>

\* the longest offense line that is kept (line 488)
MaxOffenseLen == 200

\* clean_lines as it would be without the limit on the length of a line
RECURSIVE clean_lines_any_length(_)
clean_lines_any_length(lines) ==
    IF lines = <<>> THEN <<>>
    ELSE LET code_str == Strip(Head(lines))
         IN (IF code_str = <<>> THEN <<>> ELSE <<code_str>>)
            \o clean_lines_any_length(Tail(lines))

\* lines 486-489: the offense codes of an offense text, in order
RECURSIVE clean_lines(_)
clean_lines(lines) ==
    IF lines = <<>> THEN <<>>
    ELSE LET code_str == Strip(Head(lines))
         IN (IF code_str = <<>> \/ Len(code_str) > MaxOffenseLen
             THEN <<>> ELSE <<code_str>>)
            \o clean_lines(Tail(lines))

offense_codes(offense_text) ==
    IF offense_text = <<>> THEN <<>>
    ELSE clean_lines(Split(offense_text, <<"\n">>))

\* lines 491-505 for the offense codes of one incident:
\* INSERT OR IGNORE the offense type, SELECT its id, INSERT OR IGNORE the link
RECURSIVE insert_offenses(_, _, _, _)
insert_offenses(offs, links, inc_id, codes) ==
    IF codes = <<>>
    THEN [offense_types |-> offs, incident_offenses |-> links]
    ELSE LET code_str == Head(codes)
             present == \E i \in DOMAIN offs : offs[i].offense_code = code_str
             ids == {offs[i].offense_id : i \in DOMAIN offs}
             offs2 == IF present THEN offs
                      ELSE Append(offs, [offense_id |-> NextId(ids),
                                         offense_code |-> code_str])
             off_id == (CHOOSE r \in {offs2[i] : i \in DOMAIN offs2} :
                           r.offense_code = code_str).offense_id
         IN insert_offenses(offs2, links \cup {<<inc_id, off_id>>},
                            inc_id, Tail(codes))

\* the statements of the try block at which the store may raise
Faults == {"none", "select", "insert", "offense"}

\* a record that is counted as skipped (lines 438, 460, 511, 515); caught
\* tells whether an exception of the store was caught for it
skip(db, caught) ==
    [db |-> db, inserted |-> 0, skipped |-> 1, inc_id |-> 0, caught |-> caught]

\* the values of the INSERT INTO incidents (lines 441-447, 470-478)
incident_row(rec, campus_id, inc_id) ==
    LET occ == split_occurred(Get(rec, "occurred_datetime", <<>>))
    IN [id |-> inc_id,
        incident_number |-> OrNone(Get(rec, "incident_number", <<>>)),
        campus_id |-> campus_id,
        reported_datetime |-> Get(rec, "reported_datetime", <<>>),
        occurred_start |-> occ[1],
        occurred_end |-> occ[2],
        nature_of_incident |-> Get(rec, "nature_of_incident", <<>>),
        location |-> Get(rec, "location", <<>>)]

\* SELECT id FROM incidents WHERE incident_number = ?
select_existing(rows, incident_number) ==
    {rows[i].id : i \in {j \in DOMAIN rows :
                            rows[j].incident_number = incident_number}}

\* lines 463-515: the INSERT of the incident and of its offenses.  db holds
\* the tables incidents, offense_types and incident_offenses.
insert_record(rec, campus_id, db, fault) ==
    LET rows == db.incidents
        inc_id == NextId({rows[i].id : i \in DOMAIN rows})
        row == incident_row(rec, campus_id, inc_id)
        \* incident_number TEXT UNIQUE: NULLs never collide
        IntegrityError == /\ row.incident_number # NULL
                          /\ select_existing(rows, row.incident_number) # {}
        codes == offense_codes(Get(rec, "offenses", <<>>))
        with_row == [db EXCEPT !.incidents = Append(rows, row)]
        linked == insert_offenses(db.offense_types, db.incident_offenses,
                                  inc_id, codes)
    IN IF fault = "insert" THEN skip(db, TRUE)
       ELSE IF IntegrityError THEN skip(db, FALSE)
       ELSE IF codes # <<>> /\ fault = "offense" THEN skip(with_row, TRUE)
       ELSE [db |-> [incidents |-> with_row.incidents,
                     offense_types |-> linked.offense_types,
                     incident_offenses |-> linked.incident_offenses],
             inserted |-> 1, skipped |-> 0, inc_id |-> inc_id,
             caught |-> FALSE]

\* process_record as it would be with an update of the row that exists
process_record_upsert(rec, campus_map, db, fault) ==
    LET campus_id == resolve_campus(rec, campus_map)
        incident_number == Get(rec, "incident_number", <<>>)
        found == select_existing(db.incidents, incident_number)
        rows == db.incidents
    IN IF campus_id = 0 THEN skip(db, FALSE)
       ELSE IF incident_number # <<>> /\ fault = "select" THEN skip(db, TRUE)
       ELSE IF incident_number # <<>> /\ found # {}
            THEN skip([db EXCEPT !.incidents =
                        [i \in DOMAIN rows |->
                            IF rows[i].id \in found
                            THEN incident_row(rec, campus_id, rows[i].id)
                            ELSE rows[i]]], FALSE)
       ELSE insert_record(rec, campus_id, db, fault)

\* lines 425-515 for one record: the tables after the record, the change of
\* the two counters, cur.lastrowid of the insert (0 if none) and whether an
\* exception of the store was caught.  fault names the statement at which
\* the store raises, if it does.
process_record(rec, campus_map, db, fault) ==
    LET campus_id == resolve_campus(rec, campus_map)
        incident_number == Get(rec, "incident_number", <<>>)
        existing == select_existing(db.incidents, incident_number)
    IN IF campus_id = 0 THEN skip(db, FALSE)
       ELSE IF incident_number # <<>> /\ fault = "select" THEN skip(db, TRUE)
       ELSE IF incident_number # <<>> /\ existing # {} THEN skip(db, FALSE)
       ELSE insert_record(rec, campus_id, db, fault)

\* --------------------------------------------------------------- cleanup

\* clean_campus_codes.sql as run by clean_database: every incident linked
\* to the campus row of a deprecated code is linked to the campus row of
\* the canonical code CAMPUS_CODE_FIXES gives; no campus row is deleted
repoint(row, rows) ==
    LET of_id == {rows[i] : i \in DOMAIN rows}
        mine == {r \in of_id : r.campus_id = row.campus_id}
        code == IF mine = {} THEN ""
                ELSE (CHOOSE r \in mine : TRUE).campus_code
        target == {r \in of_id :
                     /\ code \in DOMAIN CAMPUS_CODE_FIXES
                     /\ r.campus_code = CAMPUS_CODE_FIXES[code]}
    IN IF target = {} THEN row
       ELSE [row EXCEPT !.campus_id = (CHOOSE r \in target : TRUE).campus_id]

clean_database(incs, rows) == [i \in DOMAIN incs |-> repoint(incs[i], rows)]

\* fix_record as it would be if only the campus name were rewritten
fix_record_name_only(record) ==
    LET old_code == Get(record, "campus_code", "")
    IN IF old_code \in DOMAIN CAMPUS_CODE_FIXES
       THEN Put(record, "campus",
                CORRECT_CAMPUS_NAMES[CAMPUS_CODE_FIXES[old_code]])
       ELSE record

\* lines 123-128 of clean_json for one record
fix_record(record) ==
    LET old_code == Get(record, "campus_code", "")
    IN IF old_code \in DOMAIN CAMPUS_CODE_FIXES
       THEN LET new_code == CAMPUS_CODE_FIXES[old_code]
            IN Put(Put(record, "campus_code", new_code),
                   "campus", CORRECT_CAMPUS_NAMES[new_code])
       ELSE record

\* clean_json: the records written back, the fixes counted and the set of
\* codes printed as "Unique codes after cleanup"
clean_json(recs) ==
    LET fixed == [i \in DOMAIN recs |-> fix_record(recs[i])]
    IN [records |-> fixed,
        fixes_applied |->
            Cardinality({i \in DOMAIN recs :
                Get(recs[i], "campus_code", "") \in DOMAIN CAMPUS_CODE_FIXES}),
        codes_after |-> {fixed[i].campus_code : i \in DOMAIN fixed}]

\* ---------------------------------------------------------------- inputs

\* the blocks parsed and the store faults raised over a run of the model
MaxBlocks == 2

MaxFaults == 1

\* campus labels: a campus of CAMPUSES and a label that is none
Labels == {"Hershey", "Nowhere"}

N24HN7 == <<"2", "4", "H", "N", "7">>

N24XX2 == <<"2", "4", "X", "X", "2">>

\* .views-row blocks, each the text of the elements it holds
Blocks ==
    { [title |-> N24HN7 \o <<" ">>, reported |-> <<"1", "/", "2">>,
       occurred |-> <<"1", " ", "t", "o", " ", "2">>, nature |-> <<"T">>,
       offenses |-> <<"A", "\n", "\n", "B", "\n">>, location |-> <<"L">>],
      [title |-> N24HN7, reported |-> <<"9", "/", "9">>, nature |-> <<"V">>],
      [title |-> N24XX2, reported |-> <<"1", "/", "3">>,
       offenses |-> <<"A">>],
      [reported |-> <<"1", "/", "4">>, nature |-> <<"N">>],
      [location |-> <<"L">>] }

\* the pages of at most n blocks
Pages(n) == UNION {[1..k -> Blocks] : k \in 1..n}

\* ----------------------------------------------------------------- state

VARIABLES
    campuses,           \* table campuses: rows in rowid order
    incidents,          \* table incidents
    offense_types,      \* table offense_types
    incident_offenses,  \* table incident_offenses: (incident_id, offense_id)
    committed,          \* the four tables as of the latest commit
    mirror,             \* psu_crime_log_records.json, <<>> before it exists
    pc,                 \* where the running command stands, "idle" if none
    debug,              \* main: the --debug flag
    records,            \* main: the records scraped, the batch of build_database
    idx,                \* build_database: the record the loop stands at
    inserted,           \* build_database: counter
    skipped,            \* build_database: counter
    inc_ids,            \* the inc_id of each record of the latest batch, 0 if none
    raised,             \* what the latest step raised: a store fault, "crash", or "none"
    fixes_applied,      \* clean_json: the count it printed
    codes_after,        \* clean_json: the codes it printed
    html,               \* scrape_campus: the page fetched last and its label
    parsed,             \* blocks parsed so far
    faults              \* store faults so far

tables == <<campuses, incidents, offense_types, incident_offenses>>

loop == <<records, idx, inserted, skipped, inc_ids>>

report == <<fixes_applied, codes_after>>

used == <<parsed, faults>>

\* no page at hand
NoPage == [label |-> "", blocks |-> <<>>]

\* the tables as the open connection sees them
snapshot ==
    [campuses |-> campuses, incidents |-> incidents,
     offense_types |-> offense_types, incident_offenses |-> incident_offenses]

vars ==
    <<tables, committed, mirror, pc, debug, loop, raised, report, html, used>>

Init ==
    /\ campuses = <<>>
    /\ incidents = <<>>
    /\ offense_types = <<>>
    /\ incident_offenses = {}
    /\ committed = snapshot
    /\ mirror = <<>>
    /\ pc = "idle"
    /\ debug = FALSE
    /\ records = <<>>
    /\ idx = 1
    /\ inserted = 0
    /\ skipped = 0
    /\ inc_ids = <<>>
    /\ raised = "none"
    /\ fixes_applied = 0
    /\ codes_after = {}
    /\ html = NoPage
    /\ parsed = 0
    /\ faults = 0

\* ------------------------------------------------- psu_crime_scraper.main

\* main starts: arguments parsed, scrape_all_campuses begins
StartMain ==
    /\ pc = "idle"
    /\ \E d \in BOOLEAN : debug' = d
    /\ pc' = "scrape"
    /\ records' = <<>>
    /\ raised' = "none"
    /\ UNCHANGED <<tables, committed, mirror, idx, inserted, skipped,
                   inc_ids, report, html, used>>

\* scrape_campus: one page is fetched and parsed, its records are added
ScrapePage ==
    /\ pc = "scrape"
    /\ parsed < MaxBlocks
    /\ \E label \in Labels, page \in Pages(MaxBlocks - parsed) :
          /\ html' = [label |-> label, blocks |-> page]
          /\ records' = records \o parse_incidents(page, label, debug)
          /\ parsed' = parsed + Len(page)
    /\ UNCHANGED <<tables, committed, mirror, pc, debug, idx, inserted,
                   skipped, inc_ids, raised, report, faults>>

\* main: no records were scraped, sys.exit(1)
NoRecords ==
    /\ pc = "scrape"
    /\ records = <<>>
    /\ pc' = "idle"
    /\ debug' = FALSE
    /\ html' = NoPage
    /\ UNCHANGED <<tables, committed, mirror, loop, raised, report, used>>

\* build_database up to its loop: connect, create the tables, seed campuses
BuildBegin ==
    /\ pc = "scrape"
    /\ records # <<>>
    /\ campuses' = seed_campuses(campuses, CAMPUS_SEED)
    /\ pc' = "build"
    /\ idx' = 1
    /\ inserted' = 0
    /\ skipped' = 0
    /\ inc_ids' = <<>>
    /\ debug' = FALSE
    /\ html' = NoPage
    /\ UNCHANGED <<incidents, offense_types, incident_offenses, committed,
                   mirror, records, raised, report, used>>

\* build_database cannot open or prepare the store: the exception leaves main
BuildFails ==
    /\ pc = "scrape"
    /\ records # <<>>
    /\ faults < MaxFaults
    /\ faults' = faults + 1
    /\ raised' = "connect"
    /\ pc' = "idle"
    /\ debug' = FALSE
    /\ records' = <<>>
    /\ html' = NoPage
    /\ UNCHANGED <<tables, committed, mirror, idx, inserted, skipped,
                   inc_ids, report, parsed>>

\* one pass of the loop of build_database
IngestRecord ==
    /\ pc = "build"
    /\ idx <= Len(records)
    /\ \E fault \in Faults :
          LET r == process_record(records[idx], campus_map_of(campuses),
                                  [incidents |-> incidents,
                                   offense_types |-> offense_types,
                                   incident_offenses |-> incident_offenses],
                                  fault)
          IN /\ fault # "none" => faults < MaxFaults /\ r.caught
             /\ incidents' = r.db.incidents
             /\ offense_types' = r.db.offense_types
             /\ incident_offenses' = r.db.incident_offenses
             /\ inserted' = inserted + r.inserted
             /\ skipped' = skipped + r.skipped
             /\ inc_ids' = Append(inc_ids, r.inc_id)
             /\ raised' = IF r.caught THEN fault ELSE "none"
             /\ faults' = IF r.caught THEN faults + 1 ELSE faults
    /\ idx' = idx + 1
    /\ UNCHANGED <<campuses, committed, mirror, pc, debug, records, report,
                   html, parsed>>

\* the loop is over: commit, summary, close, and the JSON export of main
FinishMain ==
    /\ pc = "build"
    /\ idx > Len(records)
    /\ committed' = snapshot
    /\ mirror' = records
    /\ pc' = "idle"
    /\ raised' = "none"
    /\ records' = <<>>
    /\ idx' = 1
    /\ inserted' = 0
    /\ skipped' = 0
    /\ UNCHANGED <<tables, debug, inc_ids, report, html, used>>

\* the process ends inside the loop of build_database, before con.commit()
\* of line 517: the connection opened its transaction at the first INSERT
\* and SQLite rolls back whatever was written since the latest commit
Crash ==
    /\ pc = "build"
    /\ campuses' = committed.campuses
    /\ incidents' = committed.incidents
    /\ offense_types' = committed.offense_types
    /\ incident_offenses' = committed.incident_offenses
    /\ pc' = "idle"
    /\ raised' = "crash"
    /\ records' = <<>>
    /\ idx' = 1
    /\ inserted' = 0
    /\ skipped' = 0
    /\ inc_ids' = [k \in DOMAIN mirror |-> 0]
    /\ UNCHANGED <<committed, mirror, debug, report, html, used>>

\* ------------------------------------------------ run_cleanup.__main__

\* clean_database, on a store and a mirror that exist
CleanDatabase ==
    /\ pc = "idle"
    /\ mirror # <<>>
    /\ incidents' = clean_database(incidents, campuses)
    /\ committed' = [snapshot EXCEPT !.incidents = incidents']
    /\ pc' = "clean_json"
    /\ raised' = "none"
    /\ UNCHANGED <<campuses, offense_types, incident_offenses, mirror, debug,
                   loop, report, html, used>>

CleanJson ==
    /\ pc = "clean_json"
    /\ LET r == clean_json(mirror)
       IN /\ mirror' = r.records
          /\ fixes_applied' = r.fixes_applied
          /\ codes_after' = r.codes_after
    /\ pc' = "export_csvs"
    /\ UNCHANGED <<tables, committed, debug, loop, raised, html, used>>

\* export_csvs and copy_clean_db read the store and write other files
ExportCsvs ==
    /\ pc = "export_csvs"
    /\ pc' = "idle"
    /\ fixes_applied' = 0
    /\ codes_after' = {}
    /\ UNCHANGED <<tables, committed, mirror, debug, loop, raised, html,
                   used>>

Next ==
    \/ StartMain
    \/ ScrapePage
    \/ NoRecords
    \/ BuildBegin
    \/ BuildFails
    \/ IngestRecord
    \/ FinishMain
    \/ Crash
    \/ CleanDatabase
    \/ CleanJson
    \/ ExportCsvs

Spec == Init /\ [][Next]_vars

\* ------------------------------------------- the parser on its own inputs

\* incident numbers: a start, then a word of at most MaxLetters letters or
\* a code of CAMPUS_CODES spelled out, then an end
Letters == {"P", "S", "H", "I", "N"}

MaxLetters == 3

Words(n) == UNION {[1..k -> Letters] : k \in 0..n}

CodeWords ==
    {<<"U", "P">>, <<"H", "N">>, <<"B", "K", "T">>, <<"A", "B", "T">>,
     <<"P", "S", "H", "I">>}

Titles ==
    {p \o w \o t : p \in {<<"2", "4">>, <<"2">>, <<"x", "4">>},
                   w \in Words(MaxLetters) \cup CodeWords,
                   t \in {<<>>, <<"7">>, <<"0", "3", " ">>}}

\* parse_incidents on a page of one block that holds a title
ParseTitle ==
    /\ pc = "idle"
    /\ \E title \in Titles, label \in Labels :
          /\ html' = [label |-> label, blocks |-> <<[title |-> title]>>]
          /\ records' = parse_incidents(html'.blocks, label, FALSE)
    /\ pc' = "parsed"
    /\ UNCHANGED <<tables, committed, mirror, debug, idx, inserted, skipped,
                   inc_ids, raised, report, used>>

SpecParse == Init /\ [][ParseTitle]_vars

\* ------------------------------------- the offense split on its own inputs

\* the lines of an offense text
MaxLines == 3

\* a line of n characters
Long(n) == [i \in 1..n |-> "X"]

THEFT == <<"T", "H", "E", "F", "T">>

DISORDERLY_CONDUCT ==
    <<"D", "I", "S", "O", "R", "D", "E", "R", "L", "Y", " ",
      "C", "O", "N", "D", "U", "C", "T">>

\* lines: empty, plain, padded with whitespace, and of the longest length
\* that is kept and one more
OffenseLines ==
    {<<>>, <<"A">>, <<" ", "A", "\t">>, THEFT,
     Long(MaxOffenseLen), Long(MaxOffenseLen + 1)}

\* "\n".join(lines)
RECURSIVE Join(_)
Join(lines) ==
    IF lines = <<>> THEN <<>>
    ELSE IF Len(lines) = 1 THEN Head(lines)
    ELSE Head(lines) \o <<"\n">> \o Join(Tail(lines))

OffenseTexts(n) == {Join(ls) : ls \in UNION {[1..k -> OffenseLines] : k \in 0..n}}

\* "THEFT\n\nDISORDERLY CONDUCT\n"
TheftText == THEFT \o <<"\n", "\n">> \o DISORDERLY_CONDUCT \o <<"\n">>

\* a record of the campus HS numbered by its position in the store
OffenseRecord(text) ==
    [campus |-> "Hershey", campus_code |-> "HS",
     incident_number |-> <<"2", "4", "H", "S">>
                           \o (IF incidents = <<>> THEN <<"1">> ELSE <<"2">>),
     offenses |-> text]

\* build_database(records) on a batch of one record, the store answering
\* every statement: create and seed, one pass of the loop, commit
BuildOne(rec) ==
    LET seeded == seed_campuses(campuses, CAMPUS_SEED)
        r == process_record(rec, campus_map_of(seeded), snapshot, "none")
    IN /\ campuses' = seeded
       /\ incidents' = r.db.incidents
       /\ offense_types' = r.db.offense_types
       /\ incident_offenses' = r.db.incident_offenses
       /\ committed' = [campuses |-> seeded, incidents |-> r.db.incidents,
                        offense_types |-> r.db.offense_types,
                        incident_offenses |-> r.db.incident_offenses]
       /\ records' = <<rec>>
       /\ idx' = 2
       /\ inserted' = r.inserted
       /\ skipped' = r.skipped
       /\ inc_ids' = <<r.inc_id>>
       /\ UNCHANGED <<mirror, debug, raised, report, html, used>>

\* a first batch into the empty store
IngestFirst ==
    /\ pc = "idle"
    /\ BuildOne(OffenseRecord(TheftText))
    /\ pc' = "first"

\* a second batch, of any offense text
IngestOffenses ==
    /\ pc = "first"
    /\ \E text \in OffenseTexts(MaxLines) : BuildOne(OffenseRecord(text))
    /\ pc' = "offenses"

SpecOffenses == Init /\ [][IngestFirst \/ IngestOffenses]_vars

\* ------------------------------------ the occurred split on its own inputs

\* the parts of an occurred field
MaxParts == 3

\* the separator of line 443
TO == <<" ", "t", "o", " ">>

\* parts: a time, another, a padded one, an empty one, and the word "to"
OccurredParts == {<<"1">>, <<"2">>, <<" ", "3">>, <<>>, <<"t", "o">>}

\* " to ".join(parts)
RECURSIVE JoinTo(_)
JoinTo(parts) ==
    IF parts = <<>> THEN <<>>
    ELSE IF Len(parts) = 1 THEN Head(parts)
    ELSE Head(parts) \o TO \o JoinTo(Tail(parts))

OccurredFields(n) ==
    {JoinTo(ps) : ps \in UNION {[1..k -> OccurredParts] : k \in 0..n}}

OccurredRecord(occ) ==
    [campus |-> "Hershey", campus_code |-> "HS",
     incident_number |-> <<"2", "4", "H", "S", "1">>,
     occurred_datetime |-> occ]

\* a batch of one record, of any occurred field, into the empty store
IngestOccurred ==
    /\ pc = "idle"
    /\ \E occ \in OccurredFields(MaxParts) : BuildOne(OccurredRecord(occ))
    /\ pc' = "occurred"

SpecOccurred == Init /\ [][IngestOccurred]_vars

\* ---------------------------------------------------------------- claims

\* a step of the loop of build_database, from the record at idx
IngestStep == pc = "build" /\ idx <= Len(records) /\ idx' = idx + 1

\* the record the loop has just handled, in a state past the first pass
Done == pc = "build" /\ idx > 1

\* the incident rows that hold the non-empty incident number num
RowsNumbered(num) ==
    {i \in DOMAIN incidents : num # <<>> /\ incidents[i].incident_number = num}

\* C1: at most one incident row holds a given incident number; a pass of the
\* ingest loop changes no row that exists, a row it adds holds the fields of
\* the record it handled, and a record whose non-empty incident number is
\* already in the table leaves incidents, offense_types and
\* incident_offenses as they are and adds one to skipped.
C1_FirstWriteWins ==
    /\ [](\A i, j \in DOMAIN incidents :
            (/\ incidents[i].incident_number # NULL
             /\ incidents[i].incident_number = incidents[j].incident_number)
            => i = j)
    /\ [][IngestStep =>
            LET rec == records[idx]
                n == Len(incidents)
            IN /\ Len(incidents') >= n
               /\ \A i \in 1..n : incidents'[i] = incidents[i]
               /\ Len(incidents') > n =>
                    /\ Len(incidents') = n + 1
                    /\ incidents'[n + 1].incident_number
                         = OrNone(rec.incident_number)
                    /\ incidents'[n + 1].reported_datetime
                         = Get(rec, "reported_datetime", <<>>)
                    /\ incidents'[n + 1].nature_of_incident
                         = Get(rec, "nature_of_incident", <<>>)
               /\ RowsNumbered(rec.incident_number) # {} =>
                    /\ UNCHANGED <<incidents, offense_types,
                                   incident_offenses>>
                    /\ skipped' = skipped + 1
                    /\ inserted' = inserted]_vars

\* C1 witness: a second record numbered like a stored row, with another
\* reported time, has been skipped and the row still holds the first time
C1_Witness ==
    /\ Done
    /\ raised = "none"
    /\ inc_ids[idx - 1] = 0
    /\ skipped = 1
    /\ inserted = 1
    /\ \E i \in RowsNumbered(records[idx - 1].incident_number) :
          /\ incidents[i].reported_datetime
               # records[idx - 1].reported_datetime
          /\ incidents[i].reported_datetime = records[1].reported_datetime

\* the campus codes of the campuses table
SeededCodes == {campuses[i].campus_code : i \in DOMAIN campuses}

\* the record has no usable campus: its code is not a campus row's and its
\* label has no reverse mapping
Unresolvable(rec) ==
    /\ Get(rec, "campus_code", "") \notin SeededCodes
    /\ Get(rec, "campus", "") \notin DOMAIN CAMPUS_NAME_TO_CODE

\* C2: every incident row references a campus row that exists, and a pass
\* of the ingest loop over a record with no usable campus adds one to
\* skipped and no incident row.
C2_CampusResolves ==
    /\ [](\A i \in DOMAIN incidents :
            \E c \in DOMAIN campuses :
               campuses[c].campus_id = incidents[i].campus_id)
    /\ [][(IngestStep /\ Unresolvable(records[idx])) =>
            /\ skipped' = skipped + 1
            /\ inserted' = inserted
            /\ incidents' = incidents]_vars

\* C2 witness: after a stored incident, a record with an unknown code and
\* an unknown label has been skipped
C2_Witness ==
    /\ Done
    /\ Unresolvable(records[idx - 1])
    /\ records[idx - 1].campus_code = "XX"
    /\ skipped >= 1
    /\ incidents # <<>>

\* C3 (as claimed): while build_database runs again, with no store fault,
\* on the batch the previous run exported, no pass of its loop changes
\* incidents, offense_types or incident_offenses, and inserted stays 0.
C3_RerunChangesNothing ==
    [][(pc = "build" /\ records = mirror /\ faults = 0 /\ faults' = 0) =>
         /\ UNCHANGED <<incidents, offense_types, incident_offenses>>
         /\ inserted' = 0]_vars

\* the campus rows an incident row references
CampusOf(row) ==
    {campuses[c] : c \in {d \in DOMAIN campuses :
                             campuses[d].campus_id = row.campus_id}}

CanonicalCodes == DOMAIN CORRECT_CAMPUS_NAMES

DeprecatedCodes == DOMAIN CAMPUS_CODE_FIXES

\* clean_database of run_cleanup has run and run_cleanup has not ended
Reconciled == pc \in {"clean_json", "export_csvs"}

\* C4: once clean_database has run, every incident row references a campus
\* row that exists, and the code of that row is a canonical code and not a
\* key of the correction map.
C4_ReconciledCanonical ==
    Reconciled =>
       \A i \in DOMAIN incidents :
          /\ CampusOf(incidents[i]) # {}
          /\ \A c \in CampusOf(incidents[i]) :
                /\ c.campus_code \in CanonicalCodes
                /\ c.campus_code \notin DeprecatedCodes

\* C4 witness: the incident numbered 24HN7, stored under the campus row HN,
\* references the campus row HS after clean_database
C4_Witness ==
    /\ pc = "clean_json"
    /\ \E i \in RowsNumbered(N24HN7) :
          \E c \in CampusOf(incidents[i]) : c.campus_code = "HS"

\* C5 (as claimed): once clean_database and clean_json have run, every
\* record of the mirror that the latest build_database stored as an incident
\* holds the campus_code and the campus name of the campus row that
\* incident references.
C5_MirrorAgreesWithStore ==
    pc = "export_csvs" =>
       \A k \in DOMAIN mirror :
          inc_ids[k] # 0 =>
             \A i \in {j \in DOMAIN incidents : incidents[j].id = inc_ids[k]} :
                \A c \in CampusOf(incidents[i]) :
                   /\ mirror[k].campus_code = c.campus_code
                   /\ mirror[k].campus = c.campus_name

Deprecated(rec) == Get(rec, "campus_code", "") \in DeprecatedCodes

\* C6: a run of clean_json gives every record that held a deprecated code
\* the canonical code and the canonical name of it and leaves the others as
\* they are, so that no record holds a deprecated code; it counts the
\* records it fixed; and clean_json on the mirror it wrote applies no fix,
\* writes the same mirror and reports the same codes.
C6_CleanJsonIdempotent ==
    [][(pc = "clean_json" /\ pc' = "export_csvs") =>
         /\ DOMAIN mirror' = DOMAIN mirror
         /\ \A k \in DOMAIN mirror :
               IF Deprecated(mirror[k])
               THEN /\ mirror'[k].campus_code
                         = CAMPUS_CODE_FIXES[mirror[k].campus_code]
                    /\ mirror'[k].campus_code \in CanonicalCodes
                    /\ mirror'[k].campus
                         = CORRECT_CAMPUS_NAMES[mirror'[k].campus_code]
                    /\ mirror'[k].incident_number = mirror[k].incident_number
               ELSE mirror'[k] = mirror[k]
         /\ \A k \in DOMAIN mirror' : ~ Deprecated(mirror'[k])
         /\ fixes_applied'
              = Cardinality({k \in DOMAIN mirror : Deprecated(mirror[k])})
         /\ clean_json(mirror').fixes_applied = 0
         /\ clean_json(mirror').records = mirror'
         /\ clean_json(mirror').codes_after = codes_after'
         /\ (\A k \in DOMAIN mirror : ~ Deprecated(mirror[k])) =>
               /\ fixes_applied' = 0
               /\ mirror' = mirror]_vars

\* C6 witness: a run of clean_json that found nothing to fix in a mirror in
\* which the record numbered 24HN7 already reads HS, Hershey
C6_Witness ==
    /\ pc = "export_csvs"
    /\ fixes_applied = 0
    /\ \E k \in DOMAIN mirror :
          /\ mirror[k].incident_number = N24HN7
          /\ mirror[k].campus_code = "HS"
          /\ mirror[k].campus = "Hershey"
    /\ codes_after = {"HS"}

C8_ReverseLookupCanonical ==
    pc \in {"scrape", "build"} =>
       /\ \A k \in DOMAIN records :
             (/\ records[k].incident_number = <<>>
              /\ records[k].campus \in DOMAIN CAMPUS_NAME_TO_CODE)
             => records[k].campus_code \in CanonicalCodes
       /\ \A k \in DOMAIN inc_ids :
             (/\ pc = "build"
              /\ inc_ids[k] # 0
              /\ records[k].campus_code \notin SeededCodes)
             => \A i \in {j \in DOMAIN incidents :
                             incidents[j].id = inc_ids[k]} :
                   \A c \in CampusOf(incidents[i]) :
                      c.campus_code \in CanonicalCodes

\* C9 (as claimed): the campus code of a record whose incident number is
\* two digits and then a run of 2 to 4 uppercase letters is that run, so
\* that a code of CAMPUS_CODES between two digits and the rest of the
\* number is recovered in full.
C9_CodeIsLetterRun ==
    pc = "parsed" =>
       \A k \in DOMAIN records :
          LET num == records[k].incident_number
              run == UpperRun(num, 3)
          IN (/\ Len(num) >= 2
              /\ num[1] \in Digits
              /\ num[2] \in Digits
              /\ run \in 2..4)
             => /\ records[k].campus_code = Str(SubSeq(num, 3, 2 + run))
                /\ Str(SubSeq(num, 3, 2 + run)) \in DOMAIN CAMPUS_CODES
                     => records[k].campus_code \in DOMAIN CAMPUS_CODES

\* C10 (as claimed): a pass of the ingest loop in which the store raises
\* ends build_database and counts no skip.
C10_StoreFaultAborts ==
    [][(IngestStep /\ raised' # "none") =>
         /\ pc' = "idle"
         /\ skipped' = skipped]_vars

\* C11 (as claimed): when the process ends part-way through a batch, the
\* incident, offense-type and link rows written for the records handled
\* before it stay in the store, and every numbered record that was inserted
\* is found there by a later run.
C11_CrashKeepsRows ==
    [][(pc = "build" /\ idx > 1 /\ idx <= Len(records) /\ raised' = "crash") =>
         /\ UNCHANGED <<incidents, offense_types, incident_offenses>>
         /\ \A k \in 1..(idx - 1) :
               (inc_ids[k] # 0 /\ records[k].incident_number # <<>>) =>
                  \E i \in DOMAIN incidents' :
                     incidents'[i].incident_number
                       = records[k].incident_number]_vars

\* the positions before which a line of text starts: 0 and every newline
LineStarts(text) == {0} \cup {i \in DOMAIN text : text[i] = "\n"}

\* the line of text that starts after position a
LineAfter(text, a) ==
    LET ends == {i \in LineStarts(text) \cup {Len(text) + 1} : i > a}
        b == CHOOSE i \in ends : \A j \in ends : i <= j
    IN SubSeq(text, a + 1, b - 1)

\* the trimmed lines of text that are neither empty nor too long
KeptCodes(text) ==
    {c \in {Strip(LineAfter(text, a)) : a \in LineStarts(text)} :
        c # <<>> /\ Len(c) <= MaxOffenseLen}

\* where the trimmed line c first occurs in text
FirstAt(text, c) ==
    LET at == {a \in LineStarts(text) : Strip(LineAfter(text, a)) = c}
    IN CHOOSE a \in at : \A b \in at : a <= b

\* the links of incident id, and the offense codes they lead to
LinksOf(links, id) == {l \in links : l[1] = id}

LinkedCodes(offs, links, id) ==
    {offs[i].offense_code :
        i \in {j \in DOMAIN offs : <<id, offs[j].offense_id>> \in links}}

\* C12: a batch of one record with an offense text stores the incident and
\* links it to exactly the distinct trimmed lines of the text that are
\* neither empty nor longer than 200 characters, one link for each; the
\* offense types and links stored before stay as they are, no two offense
\* types share a code, the offense types created are those lines not yet in
\* the table, in the order of their first occurrence; and
\* "THEFT\n\nDISORDERLY CONDUCT\n" into an empty store gives the offense
\* types THEFT, DISORDERLY CONDUCT and the two links to them.
C12_OffenseLinks ==
    [][pc' \in {"first", "offenses"} =>
         LET text == records'[1].offenses
             id == inc_ids'[1]
             kept == KeptCodes(text)
             n == Len(offense_types)
             m == Len(offense_types')
             old == {offense_types[i].offense_code : i \in 1..n}
         IN /\ inserted' = 1
            /\ id # 0
            /\ LinkedCodes(offense_types', incident_offenses', id) = kept
            /\ Cardinality(LinksOf(incident_offenses', id))
                 = Cardinality(kept)
            /\ \A l \in LinksOf(incident_offenses', id) :
                  \E i \in 1..m : offense_types'[i].offense_id = l[2]
            /\ \A c \in LinkedCodes(offense_types', incident_offenses', id) :
                  c # <<>> /\ Len(c) <= 200
            /\ incident_offenses' \ LinksOf(incident_offenses', id)
                 = incident_offenses
            /\ m >= n
            /\ SubSeq(offense_types', 1, n) = offense_types
            /\ \A i, j \in 1..m :
                  offense_types'[i].offense_code
                    = offense_types'[j].offense_code => i = j
            /\ {offense_types'[i].offense_code : i \in (n + 1)..m}
                 = kept \ old
            /\ \A i, j \in (n + 1)..m :
                  i < j =>
                     /\ FirstAt(text, offense_types'[i].offense_code)
                          < FirstAt(text, offense_types'[j].offense_code)
                     /\ offense_types'[i].offense_id
                          < offense_types'[j].offense_id
            /\ (text = TheftText /\ n = 0) =>
                  /\ [i \in 1..m |-> offense_types'[i].offense_code]
                       = <<THEFT, DISORDERLY_CONDUCT>>
                  /\ LinksOf(incident_offenses', id)
                       = {<<id, offense_types'[1].offense_id>>,
                          <<id, offense_types'[2].offense_id>>}]_vars

\* C12 witness: after THEFT and DISORDERLY CONDUCT, the text of a padded
\* line A, a line of 201 characters and a line A again has been stored with
\* one link, to the third offense type
C12_Witness ==
    /\ pc = "offenses"
    /\ inserted = 1
    /\ records[1].offenses
         = <<" ", "A", "\t", "\n">> \o Long(MaxOffenseLen + 1) \o <<"\n", "A">>
    /\ [i \in DOMAIN offense_types |-> offense_types[i].offense_code]
         = <<THEFT, DISORDERLY_CONDUCT, <<"A">>>>
    /\ LinksOf(incident_offenses, inc_ids[1])
         = {<<inc_ids[1], offense_types[3].offense_id>>}

\* C13 (as claimed): the incident stored for a record whose occurred field
\* holds the separator " to ", once or several times, has a trimmed
\* occurred_start and a trimmed occurred_end that are the two sides of one
\* separator of the field, so that they account for the whole field; for a
\* field without the separator occurred_end is empty and occurred_start is
\* the trimmed field.
C13_OccurredTwoParts ==
    [][pc' = "occurred" =>
         LET occ == records'[1].occurred_datetime
             row == incidents'[Len(incidents')]
             seps == {at \in 1..(Len(occ) - 3) : SubSeq(occ, at, at + 3) = TO}
         IN /\ inserted' = 1
            /\ Strip(row.occurred_start) = row.occurred_start
            /\ Strip(row.occurred_end) = row.occurred_end
            /\ IF seps # {}
               THEN \E at \in seps :
                       /\ row.occurred_start = Strip(SubSeq(occ, 1, at - 1))
                       /\ row.occurred_end
                            = Strip(SubSeq(occ, at + 4, Len(occ)))
               ELSE /\ row.occurred_start = Strip(occ)
                    /\ row.occurred_end = <<>>]_vars

\* C14: CAMPUS_CODES holds every entry of CORRECT_CAMPUS_NAMES, with the
\* same name, and more; the keys of CAMPUS_CODE_FIXES are exactly the codes
\* of CAMPUS_CODES that are not canonical; every correction target is a
\* canonical code, is not a key of the correction map and bears in
\* CAMPUS_CODES the name of the code it replaces; and the campus rows of a
\* seeded store whose code is not canonical are exactly the rows of the keys
\* of the correction map.
C14_VocabularyConsistent ==
    /\ CanonicalCodes \subseteq DOMAIN CAMPUS_CODES
    /\ CanonicalCodes # DOMAIN CAMPUS_CODES
    /\ \A c \in CanonicalCodes : CAMPUS_CODES[c] = CORRECT_CAMPUS_NAMES[c]
    /\ DOMAIN CAMPUS_CODE_FIXES = DOMAIN CAMPUS_CODES \ CanonicalCodes
    /\ \A old \in DOMAIN CAMPUS_CODE_FIXES :
          /\ CAMPUS_CODE_FIXES[old] \in CanonicalCodes
          /\ CAMPUS_CODE_FIXES[old] \notin DOMAIN CAMPUS_CODE_FIXES
          /\ CAMPUS_CODES[CAMPUS_CODE_FIXES[old]] = CAMPUS_CODES[old]
          /\ CORRECT_CAMPUS_NAMES[CAMPUS_CODE_FIXES[old]] = CAMPUS_CODES[old]
    /\ campuses # <<>> =>
          SeededCodes \ CanonicalCodes = DOMAIN CAMPUS_CODE_FIXES

\* C14 witness: run_cleanup has reached clean_json on a store whose campus
\* rows hold the 23 canonical codes and the 8 keys of the correction map
C14_Witness ==
    /\ pc = "clean_json"
    /\ Cardinality(SeededCodes \cap CanonicalCodes) = 23
    /\ Cardinality(SeededCodes \cap DOMAIN CAMPUS_CODE_FIXES) = 8
    /\ SeededCodes = DOMAIN CAMPUS_CODES

\* the block holds a non-empty incident number, reported time or nature
HasData(block) ==
    \E elem \in {"title", "reported", "nature"} :
       elem \in DOMAIN block /\ Strip(block[elem]) # <<>>

\* the records of the blocks that hold data, each as a block past the first
\* is parsed without the debug flag
RECURSIVE Emitted(_, _)
Emitted(blocks, label) ==
    IF blocks = <<>> THEN <<>>
    ELSE (IF HasData(Head(blocks))
          THEN parse_block(Head(blocks), 1, label, FALSE)
          ELSE <<>>)
         \o Emitted(Tail(blocks), label)

\* C15 (as claimed): parsing a page adds to the records scraped one record
\* for each block that holds a non-empty incident number, reported time or
\* nature, in the order of the blocks, and none for the other blocks,
\* whatever the position of the block and whether or not the debug flag is
\* set.
C15_AcceptanceFilter ==
    [][(pc = "scrape" /\ parsed' > parsed) =>
         /\ \A i \in DOMAIN html'.blocks :
               HasData(html'.blocks[i])
                 <=> parse_block(html'.blocks[i], 1, html'.label, FALSE) # <<>>
         /\ records' = records \o Emitted(html'.blocks, html'.label)]_vars

\* C16 (as claimed): when the loop of build_database has handled the whole
\* batch, inserted + skipped is the number of records of the batch and
\* inserted is the number of incident rows added since the latest commit.
C16_EveryRecordCounted ==
    (pc = "build" /\ idx > Len(records)) =>
       /\ inserted + skipped = Len(records)
       /\ inserted = Len(incidents) - Len(committed.incidents)

====
